---- MODULE Spec2Model ----
(***************************************************************************)
(* Mailbox lifecycle of zmail: the HTTP handlers of worker/src/routes.ts   *)
(* over the database functions of worker/src/database.ts (listed in the    *)
(* permanent-mailbox design document), statement by statement.             *)
(*                                                                         *)
(* Every D1 statement is one atomic step.  The synchronous code of a       *)
(* handler that runs before a statement (reading the clock, validating the *)
(* body, building the row) is part of that statement's step; the code that *)
(* runs after the handler's last statement (building the response) is part *)
(* of the last step.                                                       *)
(*                                                                         *)
(* Timestamps.  PERMANENT_MAILBOX_SENTINEL is 9999999999, beyond the       *)
(* integers TLC computes with.  The code only compares timestamps and adds *)
(* a duration to a timestamp, both of which are invariant under a shift of *)
(* the time axis, so the model counts seconds from the instant             *)
(* 9999999999 - PERMANENT_MAILBOX_SENTINEL: the clock starts three ticks   *)
(* before the sentinel instant and can run past it.                        *)
(*                                                                         *)
(* Strings are sequences of character codes.                               *)
(***************************************************************************)
EXTENDS Integers, Sequences, FiniteSets, TLC

VARIABLES
    store,      \* the rows of table mailboxes
    emails,     \* the rows of table emails
    now,        \* getCurrentTimestamp(), in seconds
    nextId,     \* the ids generateId() has handed out so far
    cron,       \* the scheduled handler: its next statement and its locals
    pc,         \* per request slot: the statement it runs next
    req,        \* per request slot: the handler's locals
    resp        \* per request slot: the last response sent

vars == <<store, emails, now, nextId, cron, pc, req, resp>>

----------------------------------------------------------------------------
(* Bounds *)

MaxTicks == 3          \* the clock advances at most this many times
MaxRaceTicks == 2      \* the same, while two requests race
MaxDbTicks == 2        \* the same, while createMailbox is called directly
MaxCreates == 2        \* rows inserted over a run (ids handed out)
MaxEmails == 1         \* emails saved over a run
MaxMailTicks == 2      \* clock advances while emails are saved and purged
MaxSweepTicks == 3     \* clock advances while two sweeps overlap
MaxFailTicks == 3      \* clock advances while sweep runs may fail
MaxLiveTicks == 4      \* clock advances under the fair schedule
MaxLegacyTicks == 2    \* clock advances over a store with a pre-existing row
MaxUiTicks == 2        \* clock advances while the page sends requests
MaxInputLen == 3       \* length of the freely chosen part of a validator input
MaxCaseTicks == 2      \* clock advances while addresses with capitals are posted

TickSeconds == 12 * 60 * 60

Procs == {"p1", "p2"}

----------------------------------------------------------------------------
(* utils.ts *)

PERMANENT_MAILBOX_SENTINEL == 129600

AddressTypes == {"name", "random", "custom"}

\* routes.ts: const expiresInHours = 24
expiresInHours == 24

isPermanentMailbox(expiresAt) == expiresAt = PERMANENT_MAILBOX_SENTINEL

isPermanentAllowedForAddressType(addressType) ==
    addressType = "name" \/ addressType = "custom"

\* mutant: the permanence flag ignored
calculateMailboxExpiry_IgnoresPermanent(hours, isPermanent, t) ==
    t + (hours * 60 * 60)

calculateMailboxExpiry(hours, isPermanent, t) ==
    IF isPermanent THEN PERMANENT_MAILBOX_SENTINEL
    ELSE t + (hours * 60 * 60)

\* mutant: the string as it is
toLowerCase_Unchanged(s) == s

\* 'A'..'Z' -> 'a'..'z'
toLowerCase(s) ==
    [i \in 1..Len(s) |-> IF s[i] \in 65..90 THEN s[i] + 32 ELSE s[i]]

\* /^[a-zA-Z0-9._-]+$/
ValidChars == (97..122) \cup (65..90) \cup (48..57) \cup {46, 95, 45}

\* mutant: the character set examined before the length
validateCustomAddress_CharsFirst(address) ==
    IF ~(\A i \in 1..Len(address) : address[i] \in ValidChars)
    THEN [valid |-> FALSE, error |-> "InvalidCharacters"]
    ELSE IF Len(address) < 3 THEN [valid |-> FALSE, error |-> "TooShort"]
    ELSE IF Len(address) > 30 THEN [valid |-> FALSE, error |-> "TooLong"]
    ELSE [valid |-> TRUE, error |-> ""]

validateCustomAddress(address) ==
    IF Len(address) < 3 THEN [valid |-> FALSE, error |-> "TooShort"]
    ELSE IF Len(address) > 30 THEN [valid |-> FALSE, error |-> "TooLong"]
    ELSE IF ~(\A i \in 1..Len(address) : address[i] \in ValidChars)
         THEN [valid |-> FALSE, error |-> "InvalidCharacters"]
    ELSE [valid |-> TRUE, error |-> ""]

----------------------------------------------------------------------------
(* Inputs *)

AmyLee == <<97, 109, 121, 108, 101, 101>>          \* "amylee"
AmyLeeUpper == <<65, 109, 121, 76, 101, 101>>      \* "AmyLee"
Qx7 == <<113, 120, 55, 107, 50, 109, 57, 112>>     \* "qx7k2m9p"
NoAddress == <<>>                                  \* body.address absent

\* what generateNameAddress() / generateRandomAddress() may return
NameAddresses == {AmyLee}
RandomAddresses == {Qx7}

\* body.address of POST /api/mailboxes
BodyAddresses == {NoAddress, AmyLee, AmyLeeUpper, <<97, 98>>, <<97, 33, 99>>}

\* body.addressType, defaulted to "random" when absent; "other" is any other string
BodyAddressTypes == AddressTypes \cup {"other"}

\* :address of the other routes
ParamAddresses == {AmyLee, Qx7}

\* params.expiresInHours of a direct createMailbox call
HoursValid == {0, 24}

\* CF-Connecting-IP
IpAddresses == {"unknown"}

----------------------------------------------------------------------------
(* Rows, and the Mailbox objects the database functions return *)

Mailbox(row) ==
    [id |-> row.id, address |-> row.address, addressType |-> row.addressType,
     createdAt |-> row.createdAt, expiresAt |-> row.expiresAt,
     ipAddress |-> row.ipAddress, lastAccessed |-> row.lastAccessed,
     isPermanent |-> isPermanentMailbox(row.expiresAt)]

\* .first(): one of the matching rows, or none
First(rows) == IF rows = {} THEN {} ELSE {CHOOSE r \in rows : TRUE}

\* mutant: the lookup's WHERE without OR expires_at = ?
SelectLive_ExpiryOnly(rows, address, t) ==
    {r \in rows : r.address = address /\ r.expiresAt > t}

\* mutant: the lookup's WHERE with >= for >
SelectLive_AtOrAfter(rows, address, t) ==
    {r \in rows : r.address = address
                  /\ (r.expiresAt >= t \/ r.expiresAt = PERMANENT_MAILBOX_SENTINEL)}

\* mutant: the lookup's WHERE without expires_at > ?
SelectLive_PermanentOnly(rows, address, t) ==
    {r \in rows : r.address = address
                  /\ r.expiresAt = PERMANENT_MAILBOX_SENTINEL}

\* mutant: the lookup's WHERE with the address alone
SelectLive_AnyRow(rows, address, t) == {r \in rows : r.address = address}

\* SELECT ... WHERE address = ? AND (expires_at > ? OR expires_at = ?)
SelectLive(rows, address, t) ==
    {r \in rows : r.address = address
                  /\ (r.expiresAt > t \/ r.expiresAt = PERMANENT_MAILBOX_SENTINEL)}

\* mutant: the UPDATE without its WHERE
TouchById_All(rows, id, t) ==
    {[r EXCEPT !.lastAccessed = t] : r \in rows}

\* UPDATE mailboxes SET last_accessed = ? WHERE id = ?
TouchById(rows, id, t) ==
    {IF r.id = id THEN [r EXCEPT !.lastAccessed = t] ELSE r : r \in rows}

\* address TEXT UNIQUE NOT NULL, id TEXT PRIMARY KEY
UniqueViolation(rows, row) ==
    \E r \in rows : r.address = row.address \/ r.id = row.id

\* mutant: the conversion's WHERE with address_type IN ('name')
ConvertMatches_NameOnly(rows, address) ==
    {r \in rows : r.address = address
                  /\ r.addressType \in {"name"}
                  /\ r.expiresAt # PERMANENT_MAILBOX_SENTINEL}

\* UPDATE ... SET expires_at = ? WHERE address = ?
\*   AND address_type IN ('name', 'custom') AND expires_at != ?
ConvertMatches(rows, address) ==
    {r \in rows : r.address = address
                  /\ r.addressType \in {"name", "custom"}
                  /\ r.expiresAt # PERMANENT_MAILBOX_SENTINEL}

\* mutant: a DELETE that matches no row
DeleteMatches_None(rows, address) == {}

\* DELETE FROM mailboxes WHERE address = ?
DeleteMatches(rows, address) == {r \in rows : r.address = address}

\* mutant: the sentinel exclusion left out of the cleanup's WHERE
CleanupMatches_NoSentinelGuard(rows, t) == {r \in rows : r.expiresAt <= t}

\* mutant: the cleanup's WHERE with < for <=
CleanupMatches_StrictlyBefore(rows, t) ==
    {r \in rows : r.expiresAt < t /\ r.expiresAt # PERMANENT_MAILBOX_SENTINEL}

\* mutant: the cleanup's DELETE without its WHERE
CleanupMatches_Everything(rows, t) == rows

\* mutant: the cleanup's DELETE stopping after one row
CleanupMatches_AtMostOne(rows, t) ==
    First({r \in rows : r.expiresAt <= t
                        /\ r.expiresAt # PERMANENT_MAILBOX_SENTINEL})

\* mutant: the cleanup's WHERE on created_at
CleanupMatches_CreatedBefore(rows, t) ==
    {r \in rows : r.createdAt <= t /\ r.expiresAt # PERMANENT_MAILBOX_SENTINEL}

\* DELETE FROM mailboxes WHERE expires_at <= ? AND expires_at != ?
CleanupMatches(rows, t) ==
    {r \in rows : r.expiresAt <= t /\ r.expiresAt # PERMANENT_MAILBOX_SENTINEL}

----------------------------------------------------------------------------
(* Request slots *)

IdleReq ==
    [op |-> "none", address |-> NoAddress, addressType |-> "random",
     isPermanent |-> FALSE, expiresInHours |-> 0, mailbox |-> {}, now0 |-> 0,
     local |-> <<>>]

NoResp == [op |-> "none", address |-> NoAddress, status |-> 0, message |-> "",
           mailbox |-> {}]

\* status, the body's error or message, and the body's mailbox
Response(op, address, status, message, mailbox) ==
    [op |-> op, address |-> address, status |-> status, message |-> message,
     mailbox |-> mailbox]

\* failed: the run before this one threw and was logged
IdleCron == [pc |-> "idle", now0 |-> 0, changes |-> 0, failed |-> FALSE]

Init ==
    /\ store = {}
    /\ emails = {}
    /\ now = 0
    /\ nextId = 0
    /\ cron = IdleCron
    /\ pc = [p \in Procs |-> "idle"]
    /\ req = [p \in Procs |-> IdleReq]
    /\ resp = [p \in Procs |-> NoResp]

\* the handler of slot p returns: the slot is free again
Reply(p, r) ==
    /\ pc' = [pc EXCEPT ![p] = "idle"]
    /\ req' = [req EXCEPT ![p] = IdleReq]
    /\ resp' = [resp EXCEPT ![p] = r]

Goto(p, label, locals) ==
    /\ pc' = [pc EXCEPT ![p] = label]
    /\ req' = [req EXCEPT ![p] = locals]
    /\ UNCHANGED resp

\* a request arrives at a free slot; the routes other than POST take :address
\* as it is and go straight to getMailbox
Receive(p, op, address, addressType, isPermanent) ==
    /\ pc[p] = "idle"
    /\ pc' = [pc EXCEPT ![p] = IF op = "create" THEN "start" ELSE "select"]
    /\ req' = [req EXCEPT ![p] = [IdleReq EXCEPT !.op = op, !.address = address,
                                  !.addressType = addressType,
                                  !.isPermanent = isPermanent]]
    /\ resp' = [resp EXCEPT ![p] = NoResp]
    /\ UNCHANGED <<store, emails, now, nextId, cron>>

ReceivePost(p, addressTypes, addresses) ==
    \E addressType \in addressTypes, isPermanent \in BOOLEAN,
       address \in addresses :
        Receive(p, "create", address, addressType, isPermanent)

\* a POST whose body asks for no permanence
ReceivePostTemporary(p, addressTypes, addresses) ==
    \E addressType \in addressTypes, address \in addresses :
        Receive(p, "create", address, addressType, FALSE)

ReceiveGet(p, addresses) ==
    \E address \in addresses : Receive(p, "get", address, "random", FALSE)

ReceivePatch(p, addresses) ==
    \E address \in addresses : Receive(p, "convert", address, "random", FALSE)

ReceiveDelete(p, addresses) ==
    \E address \in addresses : Receive(p, "delete", address, "random", FALSE)

----------------------------------------------------------------------------
(* getMailbox: the SELECT, and what each caller does with no row *)

\* the handler's continuation when getMailbox returns null
OnNull(p) ==
    CASE req[p].op = "get" ->
            Reply(p, Response("get", req[p].address, 404, "Mailbox does not exist", {}))
      [] req[p].op = "convert" /\ pc[p] = "select" ->
            Reply(p, Response("convert", req[p].address, 404, "Mailbox not found", {}))
      [] req[p].op = "convert" /\ pc[p] = "select2" ->
            \* mailbox: updatedMailbox, which is null
            Reply(p, Response("convert", req[p].address, 200,
                              "Mailbox converted to permanent", {}))
      [] req[p].op = "delete" ->
            Reply(p, Response("delete", req[p].address, 404, "Mailbox not found", {}))
      [] req[p].op = "create" ->
            Goto(p, "insert", req[p])

GetMailboxSelect(p) ==
    /\ pc[p] \in {"select", "select2"}
    /\ LET found == First(SelectLive(store, req[p].address, now)) IN
        IF found = {} THEN OnNull(p)
        ELSE Goto(p, IF pc[p] = "select" THEN "touch" ELSE "touch2",
                  [req[p] EXCEPT !.mailbox = found, !.now0 = now])
    /\ UNCHANGED <<store, emails, now, nextId, cron>>

\* mutant: the conversion route without its class check
RandomConversionRejected_Never(m) == FALSE

\* routes.ts: if (mailbox.addressType === 'random')
RandomConversionRejected(m) == m.addressType = "random"

\* mutant: the already-permanent shortcut of the conversion route left out
AlreadyPermanent_Never(m) == FALSE

\* routes.ts: if (mailbox.isPermanent), in the conversion route
AlreadyPermanent(m) == m.isPermanent

\* mutant: deleteMailbox without its permanence check
DeleteRefused_Never(m) == FALSE

\* deleteMailbox: if (mailbox.isPermanent)
DeleteRefused(m) == m.isPermanent

\* the handler's continuation when getMailbox returns mailbox m
OnMailbox(p, m) ==
    CASE req[p].op = "get" ->
            Reply(p, Response("get", req[p].address, 200, "", {m}))
      [] req[p].op = "create" ->
            Reply(p, Response("create", req[p].address, 400,
                              "Mailbox address already exists", {}))
      [] req[p].op = "convert" /\ pc[p] = "touch2" ->
            Reply(p, Response("convert", req[p].address, 200,
                              "Mailbox converted to permanent", {m}))
      [] req[p].op = "convert" /\ pc[p] = "touch" ->
            IF RandomConversionRejected(m)
            THEN Reply(p, Response("convert", req[p].address, 403,
                       "Random mailboxes cannot be converted to permanent", {}))
            ELSE IF AlreadyPermanent(m)
            THEN Reply(p, Response("convert", req[p].address, 200,
                       "Mailbox is already permanent", {m}))
            ELSE Goto(p, "update", [req[p] EXCEPT !.mailbox = {}])
      [] req[p].op = "delete" ->
            IF DeleteRefused(m)
            THEN Reply(p, Response("delete", req[p].address, 403,
                       "Cannot delete permanent mailbox", {}))
            ELSE Goto(p, "delete", [req[p] EXCEPT !.mailbox = {}])

\* getMailbox: UPDATE last_accessed, and the object it returns
GetMailboxTouch(p) ==
    /\ pc[p] \in {"touch", "touch2"}
    /\ LET row == CHOOSE r \in req[p].mailbox : TRUE IN
        /\ store' = TouchById(store, row.id, req[p].now0)
        /\ OnMailbox(p, Mailbox([row EXCEPT !.lastAccessed = req[p].now0]))
    /\ UNCHANGED <<emails, now, nextId, cron>>

----------------------------------------------------------------------------
(* The handlers *)

\* mutant: POST /api/mailboxes without its permanence check
PermanentRandomRejected_Never(isPermanent, addressType) == FALSE

\* routes.ts: if (isPermanent && addressType === 'random')
PermanentRandomRejected(isPermanent, addressType) ==
    isPermanent /\ addressType = "random"

\* POST /api/mailboxes up to its first statement
PostMailboxes(p) ==
    /\ pc[p] = "start" /\ req[p].op = "create"
    /\ LET body == [req[p] EXCEPT !.expiresInHours = expiresInHours]
           addressType == body.addressType
           bad(error) == Reply(p, Response("create", body.address, 400, error, {}))
       IN
        IF addressType \notin AddressTypes THEN bad("Invalid address type")
        ELSE IF PermanentRandomRejected(body.isPermanent, addressType)
        THEN bad("Random mailboxes cannot be permanent")
        ELSE IF addressType = "name"
        THEN \E address \in NameAddresses :
                Goto(p, "select", [body EXCEPT !.address = address])
        ELSE IF addressType = "custom" /\ body.address = NoAddress
        THEN bad("Custom address type requires the address parameter")
        ELSE IF body.address = NoAddress
        THEN \E address \in RandomAddresses :
                Goto(p, "select", [body EXCEPT !.address = address])
        ELSE IF ~validateCustomAddress(body.address).valid
        THEN bad(validateCustomAddress(body.address).error)
        ELSE Goto(p, "select", [body EXCEPT !.address = toLowerCase(body.address)])
    /\ UNCHANGED <<store, emails, now, nextId, cron>>

\* createMailbox called on the database module itself, as its tests do, with
\* any CreateMailboxParams
CallCreateMailbox(p) ==
    /\ pc[p] = "idle"
    /\ \E address \in ParamAddresses, addressType \in AddressTypes,
          isPermanent \in BOOLEAN, hours \in HoursValid :
        /\ pc' = [pc EXCEPT ![p] = "insert"]
        /\ req' = [req EXCEPT ![p] =
                     [IdleReq EXCEPT !.op = "createMailbox", !.address = address,
                                     !.addressType = addressType,
                                     !.isPermanent = isPermanent,
                                     !.expiresInHours = hours]]
        /\ resp' = [resp EXCEPT ![p] = NoResp]
    /\ UNCHANGED <<store, emails, now, nextId, cron>>

\* createMailbox
CreateMailbox(p) ==
    /\ pc[p] = "insert"
    /\ \E ipAddress \in IpAddresses :
       LET params == req[p]
           isPermanent == params.isPermanent
                          /\ isPermanentAllowedForAddressType(params.addressType)
           expiresAt == calculateMailboxExpiry(params.expiresInHours, isPermanent, now)
           row == [id |-> nextId + 1, address |-> params.address,
                   addressType |-> params.addressType, createdAt |-> now,
                   expiresAt |-> expiresAt, ipAddress |-> ipAddress,
                   lastAccessed |-> now]
       IN IF UniqueViolation(store, row)
          THEN \* the INSERT throws; the route's catch answers 400, a direct
               \* caller gets the exception
               /\ Reply(p, Response(params.op, params.address,
                                    IF params.op = "create" THEN 400 ELSE 0,
                                    "Create mailbox failed", {}))
               /\ UNCHANGED <<store, nextId>>
          ELSE /\ store' = store \cup {row}
               /\ nextId' = nextId + 1
               /\ Reply(p, Response(params.op, params.address, 200, "",
                                    {Mailbox(row)}))
    /\ UNCHANGED <<emails, now, cron>>

\* convertMailboxToPermanent
ConvertMailboxToPermanent(p) ==
    /\ pc[p] = "update"
    /\ LET matches == ConvertMatches(store, req[p].address) IN
        /\ store' = {IF r \in matches
                     THEN [r EXCEPT !.expiresAt = PERMANENT_MAILBOX_SENTINEL]
                     ELSE r : r \in store}
        /\ IF Cardinality(matches) > 0
           THEN Goto(p, "select2", req[p])
           ELSE Reply(p, Response("convert", req[p].address, 500,
                                  "Failed to convert mailbox", {}))
    /\ UNCHANGED <<emails, now, nextId, cron>>

\* deleteMailbox, after its getMailbox
DeleteMailbox(p) ==
    /\ pc[p] = "delete"
    /\ store' = store \ DeleteMatches(store, req[p].address)
    /\ Reply(p, Response("delete", req[p].address, 200, "", {}))
    /\ UNCHANGED <<emails, now, nextId, cron>>

----------------------------------------------------------------------------
(* The scheduled sweep *)

\* the scheduled event fires: cleanupExpiredMailboxes up to its DELETE
CleanupExpiredMailboxes ==
    /\ cron.pc = "idle"
    /\ LET matches == CleanupMatches(store, now) IN
        /\ store' = store \ matches
        /\ cron' = [pc |-> "orphans", now0 |-> now,
                    changes |-> Cardinality(matches), failed |-> cron.failed]
    /\ UNCHANGED <<emails, now, nextId, pc, req, resp>>

\* the cleanup functions' cleanupOrphanedAttachments, which leaves tables
\* mailboxes and emails alone, and their return of result.meta.changes
CleanupOrphanedAttachments ==
    /\ cron.pc \in {"orphans", "mailOrphans", "readOrphans"}
    /\ cron' = IdleCron
    /\ UNCHANGED <<store, emails, now, nextId, pc, req, resp>>

\* cleanupExpiredMailboxes: cleanupOrphanedAttachments throws after the
\* DELETE has run; the run ends without returning and the error is logged
CleanupOrphanedAttachmentsThrows ==
    /\ cron.pc = "orphans"
    /\ cron' = [IdleCron EXCEPT !.failed = TRUE]
    /\ UNCHANGED <<store, emails, now, nextId, pc, req, resp>>

\* a second run of cleanupExpiredMailboxes that overlaps the scheduled one,
\* held in request slot p: up to its DELETE
OverlappingCleanup(p) ==
    /\ pc[p] = "idle"
    /\ store' = store \ CleanupMatches(store, now)
    /\ pc' = [pc EXCEPT ![p] = "orphans"]
    /\ req' = [req EXCEPT ![p] = [IdleReq EXCEPT !.op = "cleanup", !.now0 = now]]
    /\ resp' = [resp EXCEPT ![p] = NoResp]
    /\ UNCHANGED <<emails, now, nextId, cron>>

\* the overlapping run's cleanupOrphanedAttachments and return
OverlappingOrphanedAttachments(p) ==
    /\ pc[p] = "orphans"
    /\ Reply(p, Response("cleanup", NoAddress, 0, "", {}))
    /\ UNCHANGED <<store, emails, now, nextId, cron>>

----------------------------------------------------------------------------
(* Table emails and its purges *)

\* an email is saved for a mailbox of the store, unread
SaveEmail ==
    /\ nextId < MaxCreates + MaxEmails
    /\ \E m \in store :
        emails' = emails \cup {[id |-> nextId + 1, mailboxId |-> m.id,
                                receivedAt |-> now, isRead |-> FALSE]}
    /\ nextId' = nextId + 1
    /\ UNCHANGED <<store, now, cron, pc, req, resp>>

\* an email is marked read
MarkEmailRead ==
    /\ \E e \in emails :
        /\ ~e.isRead
        /\ emails' = (emails \ {e}) \cup {[e EXCEPT !.isRead = TRUE]}
    /\ UNCHANGED <<store, now, nextId, cron, pc, req, resp>>

\* mutant: the purges' subquery without its WHERE
PurgeableMailboxIds_All(rows) == {r.id : r \in rows}

\* SELECT id FROM mailboxes WHERE expires_at != ?
PurgeableMailboxIds(rows) ==
    {r.id : r \in {x \in rows : x.expiresAt # PERMANENT_MAILBOX_SENTINEL}}

\* DELETE FROM emails WHERE received_at <= ? AND mailbox_id IN (...)
ExpiredMailMatches(mails, rows, oneDayAgo) ==
    {e \in mails : e.receivedAt <= oneDayAgo
                    /\ e.mailboxId \in PurgeableMailboxIds(rows)}

\* DELETE FROM emails WHERE is_read = 1 AND mailbox_id IN (...)
ReadMailMatches(mails, rows) ==
    {e \in mails : e.isRead /\ e.mailboxId \in PurgeableMailboxIds(rows)}

\* cleanupExpiredMails up to its DELETE
CleanupExpiredMails ==
    /\ cron.pc = "idle"
    /\ LET oneDayAgo == now - 24 * 60 * 60
           matches == ExpiredMailMatches(emails, store, oneDayAgo) IN
        /\ emails' = emails \ matches
        /\ cron' = [pc |-> "mailOrphans", now0 |-> now,
                    changes |-> Cardinality(matches), failed |-> cron.failed]
    /\ UNCHANGED <<store, now, nextId, pc, req, resp>>

\* cleanupReadMails up to its DELETE
CleanupReadMails ==
    /\ cron.pc = "idle"
    /\ LET matches == ReadMailMatches(emails, store) IN
        /\ emails' = emails \ matches
        /\ cron' = [pc |-> "readOrphans", now0 |-> now,
                    changes |-> Cardinality(matches), failed |-> cron.failed]
    /\ UNCHANGED <<store, now, nextId, pc, req, resp>>

----------------------------------------------------------------------------
(* The clock *)

Tick(maxTicks) ==
    /\ now < maxTicks * TickSeconds
    /\ now' = now + TickSeconds
    /\ UNCHANGED <<store, emails, nextId, cron, pc, req, resp>>

----------------------------------------------------------------------------

\* ids are handed out while the bound allows
MayCreate ==
    nextId + Cardinality({q \in Procs : req[q].op \in {"create", "createMailbox"}})
        < MaxCreates

\* the steps of the request in slot p, once received
Handle(p) ==
    \/ PostMailboxes(p)
    \/ GetMailboxSelect(p)
    \/ GetMailboxTouch(p)
    \/ CreateMailbox(p)
    \/ ConvertMailboxToPermanent(p)
    \/ DeleteMailbox(p)

Background(maxTicks) ==
    \/ CleanupExpiredMailboxes
    \/ CleanupOrphanedAttachments
    \/ Tick(maxTicks)

\* Requests served one at a time, the sweep and the clock running alongside
Next ==
    \/ MayCreate /\ ReceivePost("p1", BodyAddressTypes, BodyAddresses)
    \/ ReceiveGet("p1", ParamAddresses)
    \/ ReceivePatch("p1", ParamAddresses)
    \/ ReceiveDelete("p1", ParamAddresses)
    \/ Handle("p1")
    \/ Background(MaxTicks)

Spec == Init /\ [][Next]_vars

\* The same, with rows created by calling createMailbox directly instead of
\* through POST /api/mailboxes
NextDb ==
    \/ MayCreate /\ CallCreateMailbox("p1")
    \/ ReceiveGet("p1", ParamAddresses)
    \/ ReceivePatch("p1", ParamAddresses)
    \/ ReceiveDelete("p1", ParamAddresses)
    \/ GetMailboxSelect("p1")
    \/ GetMailboxTouch("p1")
    \/ CreateMailbox("p1")
    \/ ConvertMailboxToPermanent("p1")
    \/ DeleteMailbox("p1")
    \/ Background(MaxDbTicks)

SpecDb == Init /\ [][NextDb]_vars

\* Two requests in flight on one address, their statements interleaved.  Get
\* requests are left out: all they write is last_accessed, which the getMailbox
\* calls of the other handlers write too.
NextRace ==
    \/ \E p \in Procs : MayCreate /\ ReceivePost(p, AddressTypes, {AmyLee})
    \/ \E p \in Procs : ReceivePatch(p, {AmyLee})
    \/ \E p \in Procs : ReceiveDelete(p, {AmyLee})
    \/ \E p \in Procs : Handle(p)
    \/ Background(MaxRaceTicks)

SpecRace == Init /\ [][NextRace]_vars

\* Mailboxes of one address created and converted while emails are saved,
\* read and purged.  Rows of table mailboxes are not deleted here.
NextMail ==
    \/ MayCreate /\ ReceivePost("p1", {"name"}, {NoAddress})
    \/ ReceivePatch("p1", NameAddresses)
    \/ PostMailboxes("p1")
    \/ GetMailboxSelect("p1")
    \/ GetMailboxTouch("p1")
    \/ CreateMailbox("p1")
    \/ ConvertMailboxToPermanent("p1")
    \/ SaveEmail
    \/ MarkEmailRead
    \/ CleanupExpiredMails
    \/ CleanupReadMails
    \/ CleanupOrphanedAttachments
    \/ Tick(MaxMailTicks)

SpecMail == Init /\ [][NextMail]_vars

\* Requests served one at a time in slot p1 while the scheduled sweep and a
\* second run of it, in slot p2, overlap
NextSweep ==
    \/ MayCreate /\ ReceivePost("p1", {"name", "random"}, {NoAddress})
    \/ ReceivePatch("p1", NameAddresses)
    \/ ReceiveDelete("p1", NameAddresses)
    \/ Handle("p1")
    \/ OverlappingCleanup("p2")
    \/ OverlappingOrphanedAttachments("p2")
    \/ Background(MaxSweepTicks)

SpecSweep == Init /\ [][NextSweep]_vars

\* Requests served one at a time while the scheduled sweep runs, some of its
\* runs failing in their attachment pass
NextFail ==
    \/ MayCreate /\ ReceivePost("p1", {"name", "random"}, {NoAddress})
    \/ ReceivePatch("p1", NameAddresses)
    \/ ReceiveDelete("p1", NameAddresses)
    \/ Handle("p1")
    \/ CleanupOrphanedAttachmentsThrows
    \/ Background(MaxFailTicks)

SpecFail == Init /\ [][NextFail]_vars

\* ---- generateRandomAddress ----

letters == [i \in 1..26 |-> 96 + i]                        \* 'a'..'z'
alphanumeric == letters \o [i \in 1..10 |-> 47 + i]        \* 'a'..'z' '0'..'9'

\* String.prototype.charAt, for an index inside the string
charAt(str, index) == str[index + 1]

\* the values of Math.floor(Math.random() * n)
MathFloorRandom(n) == 0..(n - 1)

\* the indices followed among them when a character is drawn: the first and
\* last letter, the first and last digit
LetterPicks == {k \in MathFloorRandom(Len(letters)) : k \in {0, 25}}
AlphanumericPicks == {k \in MathFloorRandom(Len(alphanumeric)) : k \in {0, 26, 35}}

\* mutant: one character less
RandomLength_From7(k) == k + 7

\* const length = Math.floor(Math.random() * 5) + 8, for the drawn value k
RandomLength(k) == k + 8

InitRandom ==
    /\ store = {}
    /\ emails = {}
    /\ now = 0
    /\ nextId = 0
    /\ cron = IdleCron
    /\ pc = [p \in Procs |-> IF p = "p1" THEN "generate" ELSE "idle"]
    /\ req = [p \in Procs |->
                IF p = "p1" THEN [IdleReq EXCEPT !.op = "generateRandomAddress"]
                ELSE IdleReq]
    /\ resp = [p \in Procs |-> NoResp]

\* the length and the first character are drawn
GenerateRandomAddressFirst(p) ==
    /\ pc[p] = "generate" /\ req[p].op = "generateRandomAddress"
    /\ \E k \in MathFloorRandom(5), first \in LetterPicks :
        Goto(p, "loop",
             [req[p] EXCEPT !.address = <<charAt(letters, first)>>,
                            !.local = [length |-> RandomLength(k), i |-> 1]])
    /\ UNCHANGED <<store, emails, now, nextId, cron>>

\* for (let i = 1; i < length; i++) result += alphanumeric.charAt(...);
\* return result
GenerateRandomAddressLoop(p) ==
    /\ pc[p] = "loop" /\ req[p].op = "generateRandomAddress"
    /\ IF req[p].local.i < req[p].local.length
       THEN \E k \in AlphanumericPicks :
               Goto(p, "loop",
                    [req[p] EXCEPT !.address = @ \o <<charAt(alphanumeric, k)>>,
                                   !.local.i = @ + 1])
       ELSE Reply(p, Response(req[p].op, req[p].address, 0, "", {}))
    /\ UNCHANGED <<store, emails, now, nextId, cron>>

NextRandom ==
    \/ GenerateRandomAddressFirst("p1")
    \/ GenerateRandomAddressLoop("p1")

SpecRandom == InitRandom /\ [][NextRandom]_vars

\* ---- generateNameAddress (name-generator.ts, data/names.ts) ----

\* NAME_POOL.firstNames and NAME_POOL.lastNames
firstNames ==
    <<
      <<106, 97, 109, 101, 115>>,   \* james
      <<106, 111, 104, 110>>,   \* john
      <<114, 111, 98, 101, 114, 116>>,   \* robert
      <<109, 105, 99, 104, 97, 101, 108>>,   \* michael
      <<119, 105, 108, 108, 105, 97, 109>>,   \* william
      <<100, 97, 118, 105, 100>>,   \* david
      <<114, 105, 99, 104, 97, 114, 100>>,   \* richard
      <<106, 111, 115, 101, 112, 104>>,   \* joseph
      <<116, 104, 111, 109, 97, 115>>,   \* thomas
      <<99, 104, 97, 114, 108, 101, 115>>,   \* charles
      <<99, 104, 114, 105, 115, 116, 111, 112, 104, 101, 114>>,   \* christopher
      <<100, 97, 110, 105, 101, 108>>,   \* daniel
      <<109, 97, 116, 116, 104, 101, 119>>,   \* matthew
      <<97, 110, 116, 104, 111, 110, 121>>,   \* anthony
      <<109, 97, 114, 107>>,   \* mark
      <<100, 111, 110, 97, 108, 100>>,   \* donald
      <<115, 116, 101, 118, 101, 110>>,   \* steven
      <<112, 97, 117, 108>>,   \* paul
      <<97, 110, 100, 114, 101, 119>>,   \* andrew
      <<106, 111, 115, 104, 117, 97>>,   \* joshua
      <<107, 101, 110, 110, 101, 116, 104>>,   \* kenneth
      <<107, 101, 118, 105, 110>>,   \* kevin
      <<98, 114, 105, 97, 110>>,   \* brian
      <<103, 101, 111, 114, 103, 101>>,   \* george
      <<116, 105, 109, 111, 116, 104, 121>>,   \* timothy
      <<114, 111, 110, 97, 108, 100>>,   \* ronald
      <<101, 100, 119, 97, 114, 100>>,   \* edward
      <<106, 97, 115, 111, 110>>,   \* jason
      <<106, 101, 102, 102, 114, 101, 121>>,   \* jeffrey
      <<114, 121, 97, 110>>,   \* ryan
      <<106, 97, 99, 111, 98>>,   \* jacob
      <<103, 97, 114, 121>>,   \* gary
      <<110, 105, 99, 104, 111, 108, 97, 115>>,   \* nicholas
      <<101, 114, 105, 99>>,   \* eric
      <<106, 111, 110, 97, 116, 104, 97, 110>>,   \* jonathan
      <<115, 116, 101, 112, 104, 101, 110>>,   \* stephen
      <<108, 97, 114, 114, 121>>,   \* larry
      <<106, 117, 115, 116, 105, 110>>,   \* justin
      <<115, 99, 111, 116, 116>>,   \* scott
      <<98, 114, 97, 110, 100, 111, 110>>,   \* brandon
      <<98, 101, 110, 106, 97, 109, 105, 110>>,   \* benjamin
      <<115, 97, 109, 117, 101, 108>>,   \* samuel
      <<114, 97, 121, 109, 111, 110, 100>>,   \* raymond
      <<103, 114, 101, 103, 111, 114, 121>>,   \* gregory
      <<102, 114, 97, 110, 107>>,   \* frank
      <<97, 108, 101, 120, 97, 110, 100, 101, 114>>,   \* alexander
      <<112, 97, 116, 114, 105, 99, 107>>,   \* patrick
      <<106, 97, 99, 107>>,   \* jack
      <<100, 101, 110, 110, 105, 115>>,   \* dennis
      <<106, 101, 114, 114, 121>>,   \* jerry
      <<109, 97, 114, 121>>,   \* mary
      <<112, 97, 116, 114, 105, 99, 105, 97>>,   \* patricia
      <<106, 101, 110, 110, 105, 102, 101, 114>>,   \* jennifer
      <<108, 105, 110, 100, 97>>,   \* linda
      <<101, 108, 105, 122, 97, 98, 101, 116, 104>>,   \* elizabeth
      <<98, 97, 114, 98, 97, 114, 97>>,   \* barbara
      <<115, 117, 115, 97, 110>>,   \* susan
      <<106, 101, 115, 115, 105, 99, 97>>,   \* jessica
      <<115, 97, 114, 97, 104>>,   \* sarah
      <<107, 97, 114, 101, 110>>,   \* karen
      <<108, 105, 115, 97>>,   \* lisa
      <<110, 97, 110, 99, 121>>,   \* nancy
      <<98, 101, 116, 116, 121>>,   \* betty
      <<109, 97, 114, 103, 97, 114, 101, 116>>,   \* margaret
      <<115, 97, 110, 100, 114, 97>>,   \* sandra
      <<97, 115, 104, 108, 101, 121>>,   \* ashley
      <<107, 105, 109, 98, 101, 114, 108, 121>>,   \* kimberly
      <<101, 109, 105, 108, 121>>,   \* emily
      <<100, 111, 110, 110, 97>>,   \* donna
      <<109, 105, 99, 104, 101, 108, 108, 101>>,   \* michelle
      <<100, 111, 114, 111, 116, 104, 121>>,   \* dorothy
      <<99, 97, 114, 111, 108>>,   \* carol
      <<97, 109, 97, 110, 100, 97>>,   \* amanda
      <<109, 101, 108, 105, 115, 115, 97>>,   \* melissa
      <<100, 101, 98, 111, 114, 97, 104>>,   \* deborah
      <<115, 116, 101, 112, 104, 97, 110, 105, 101>>,   \* stephanie
      <<114, 101, 98, 101, 99, 99, 97>>,   \* rebecca
      <<115, 104, 97, 114, 111, 110>>,   \* sharon
      <<108, 97, 117, 114, 97>>,   \* laura
      <<99, 121, 110, 116, 104, 105, 97>>,   \* cynthia
      <<107, 97, 116, 104, 108, 101, 101, 110>>,   \* kathleen
      <<97, 109, 121>>,   \* amy
      <<97, 110, 103, 101, 108, 97>>,   \* angela
      <<115, 104, 105, 114, 108, 101, 121>>,   \* shirley
      <<97, 110, 110, 97>>,   \* anna
      <<98, 114, 101, 110, 100, 97>>,   \* brenda
      <<112, 97, 109, 101, 108, 97>>,   \* pamela
      <<101, 109, 109, 97>>,   \* emma
      <<110, 105, 99, 111, 108, 101>>,   \* nicole
      <<104, 101, 108, 101, 110>>,   \* helen
      <<115, 97, 109, 97, 110, 116, 104, 97>>,   \* samantha
      <<107, 97, 116, 104, 101, 114, 105, 110, 101>>,   \* katherine
      <<99, 104, 114, 105, 115, 116, 105, 110, 101>>,   \* christine
      <<100, 101, 98, 114, 97>>,   \* debra
      <<114, 97, 99, 104, 101, 108>>,   \* rachel
      <<99, 97, 114, 111, 108, 121, 110>>,   \* carolyn
      <<106, 97, 110, 101, 116>>,   \* janet
      <<99, 97, 116, 104, 101, 114, 105, 110, 101>>,   \* catherine
      <<109, 97, 114, 105, 97>>,   \* maria
      <<104, 101, 97, 116, 104, 101, 114>>,   \* heather
      <<97, 108, 101, 120>>,   \* alex
      <<116, 97, 121, 108, 111, 114>>,   \* taylor
      <<106, 111, 114, 100, 97, 110>>,   \* jordan
      <<109, 111, 114, 103, 97, 110>>,   \* morgan
      <<99, 97, 115, 101, 121>>,   \* casey
      <<114, 105, 108, 101, 121>>,   \* riley
      <<106, 97, 109, 105, 101>>,   \* jamie
      <<97, 118, 101, 114, 121>>,   \* avery
      <<113, 117, 105, 110, 110>>,   \* quinn
      <<112, 97, 114, 107, 101, 114>>,   \* parker
      <<98, 108, 97, 107, 101>>,   \* blake
      <<100, 114, 101, 119>>,   \* drew
      <<99, 97, 109, 101, 114, 111, 110>>,   \* cameron
      <<108, 111, 103, 97, 110>>,   \* logan
      <<100, 121, 108, 97, 110>>,   \* dylan
      <<104, 97, 121, 100, 101, 110>>,   \* hayden
      <<112, 101, 121, 116, 111, 110>>,   \* peyton
      <<114, 101, 101, 115, 101>>,   \* reese
      <<115, 97, 103, 101>>,   \* sage
      <<115, 107, 121, 108, 101, 114>>,   \* skyler
      <<99, 104, 97, 114, 108, 105, 101>>,   \* charlie
      <<102, 105, 110, 108, 101, 121>>,   \* finley
      <<104, 97, 114, 112, 101, 114>>,   \* harper
      <<107, 101, 110, 100, 97, 108, 108>>,   \* kendall
      <<109, 97, 100, 105, 115, 111, 110>>,   \* madison
      <<109, 97, 115, 111, 110>>,   \* mason
      <<110, 111, 97, 104>>,   \* noah
      <<111, 108, 105, 118, 101, 114>>,   \* oliver
      <<115, 111, 112, 104, 105, 97>>,   \* sophia
      <<108, 105, 97, 109>>,   \* liam
      <<101, 116, 104, 97, 110>>,   \* ethan
      <<108, 117, 99, 97, 115>>,   \* lucas
      <<109, 105, 97>>,   \* mia
      <<101, 108, 108, 97>>,   \* ella
      <<103, 114, 97, 99, 101>>,   \* grace
      <<99, 104, 108, 111, 101>>,   \* chloe
      <<108, 105, 108, 121>>,   \* lily
      <<122, 111, 101>>,   \* zoe
      <<104, 97, 110, 110, 97, 104>>,   \* hannah
      <<110, 97, 116, 97, 108, 105, 101>>,   \* natalie
      <<118, 105, 99, 116, 111, 114, 105, 97>>,   \* victoria
      <<99, 108, 97, 105, 114, 101>>,   \* claire
      <<97, 117, 100, 114, 101, 121>>,   \* audrey
      <<108, 101, 97, 104>>,   \* leah
      <<115, 97, 118, 97, 110, 110, 97, 104>>,   \* savannah
      <<98, 114, 111, 111, 107, 108, 121, 110>>,   \* brooklyn
      <<118, 105, 111, 108, 101, 116>>   \* violet
    >>

lastNames ==
    <<
      <<115, 109, 105, 116, 104>>,   \* smith
      <<106, 111, 104, 110, 115, 111, 110>>,   \* johnson
      <<119, 105, 108, 108, 105, 97, 109, 115>>,   \* williams
      <<98, 114, 111, 119, 110>>,   \* brown
      <<106, 111, 110, 101, 115>>,   \* jones
      <<103, 97, 114, 99, 105, 97>>,   \* garcia
      <<109, 105, 108, 108, 101, 114>>,   \* miller
      <<100, 97, 118, 105, 115>>,   \* davis
      <<114, 111, 100, 114, 105, 103, 117, 101, 122>>,   \* rodriguez
      <<109, 97, 114, 116, 105, 110, 101, 122>>,   \* martinez
      <<104, 101, 114, 110, 97, 110, 100, 101, 122>>,   \* hernandez
      <<108, 111, 112, 101, 122>>,   \* lopez
      <<103, 111, 110, 122, 97, 108, 101, 122>>,   \* gonzalez
      <<119, 105, 108, 115, 111, 110>>,   \* wilson
      <<97, 110, 100, 101, 114, 115, 111, 110>>,   \* anderson
      <<116, 104, 111, 109, 97, 115>>,   \* thomas
      <<116, 97, 121, 108, 111, 114>>,   \* taylor
      <<109, 111, 111, 114, 101>>,   \* moore
      <<106, 97, 99, 107, 115, 111, 110>>,   \* jackson
      <<109, 97, 114, 116, 105, 110>>,   \* martin
      <<108, 101, 101>>,   \* lee
      <<112, 101, 114, 101, 122>>,   \* perez
      <<116, 104, 111, 109, 112, 115, 111, 110>>,   \* thompson
      <<119, 104, 105, 116, 101>>,   \* white
      <<104, 97, 114, 114, 105, 115>>,   \* harris
      <<115, 97, 110, 99, 104, 101, 122>>,   \* sanchez
      <<99, 108, 97, 114, 107>>,   \* clark
      <<114, 97, 109, 105, 114, 101, 122>>,   \* ramirez
      <<108, 101, 119, 105, 115>>,   \* lewis
      <<114, 111, 98, 105, 110, 115, 111, 110>>,   \* robinson
      <<119, 97, 108, 107, 101, 114>>,   \* walker
      <<121, 111, 117, 110, 103>>,   \* young
      <<97, 108, 108, 101, 110>>,   \* allen
      <<107, 105, 110, 103>>,   \* king
      <<119, 114, 105, 103, 104, 116>>,   \* wright
      <<115, 99, 111, 116, 116>>,   \* scott
      <<116, 111, 114, 114, 101, 115>>,   \* torres
      <<110, 103, 117, 121, 101, 110>>,   \* nguyen
      <<104, 105, 108, 108>>,   \* hill
      <<102, 108, 111, 114, 101, 115>>,   \* flores
      <<103, 114, 101, 101, 110>>,   \* green
      <<97, 100, 97, 109, 115>>,   \* adams
      <<110, 101, 108, 115, 111, 110>>,   \* nelson
      <<98, 97, 107, 101, 114>>,   \* baker
      <<104, 97, 108, 108>>,   \* hall
      <<114, 105, 118, 101, 114, 97>>,   \* rivera
      <<99, 97, 109, 112, 98, 101, 108, 108>>,   \* campbell
      <<109, 105, 116, 99, 104, 101, 108, 108>>,   \* mitchell
      <<99, 97, 114, 116, 101, 114>>,   \* carter
      <<114, 111, 98, 101, 114, 116, 115>>,   \* roberts
      <<116, 117, 114, 110, 101, 114>>,   \* turner
      <<112, 104, 105, 108, 108, 105, 112, 115>>,   \* phillips
      <<101, 118, 97, 110, 115>>,   \* evans
      <<112, 97, 114, 107, 101, 114>>,   \* parker
      <<101, 100, 119, 97, 114, 100, 115>>,   \* edwards
      <<99, 111, 108, 108, 105, 110, 115>>,   \* collins
      <<115, 116, 101, 119, 97, 114, 116>>,   \* stewart
      <<109, 111, 114, 114, 105, 115>>,   \* morris
      <<109, 117, 114, 112, 104, 121>>,   \* murphy
      <<99, 111, 111, 107>>,   \* cook
      <<114, 111, 103, 101, 114, 115>>,   \* rogers
      <<109, 111, 114, 103, 97, 110>>,   \* morgan
      <<112, 101, 116, 101, 114, 115, 111, 110>>,   \* peterson
      <<99, 111, 111, 112, 101, 114>>,   \* cooper
      <<114, 101, 101, 100>>,   \* reed
      <<98, 97, 105, 108, 101, 121>>,   \* bailey
      <<98, 101, 108, 108>>,   \* bell
      <<103, 111, 109, 101, 122>>,   \* gomez
      <<107, 101, 108, 108, 121>>   \* kelly
    >>

MIN_ADDRESS_LENGTH == 6
MAX_ADDRESS_LENGTH == 20
maxAttempts == 50

formats == <<"dot", "underscore", "plain", "withDigits">>

\* the digits followed when Math.floor(Math.random() * 10) is drawn
DigitPicks == {k \in MathFloorRandom(10) : k \in {0, 9}}

\* generateRandomDigits(): two or three digits, as strings of '0'..'9'
RandomDigits ==
    UNION {[1..numDigits -> {48 + k : k \in DigitPicks}] : numDigits \in {2, 3}}

\* what generateRandomDigits() may return inside formatNameAddress: it is
\* called for format withDigits only
DigitsDrawn(format) == IF format = "withDigits" THEN RandomDigits ELSE {<<>>}

\* formatNameAddress(firstName, lastName, format), with digits the value that
\* generateRandomDigits() returns when it is called
formatNameAddress(firstName, lastName, format, digits) ==
    LET first == toLowerCase(firstName)
        last == toLowerCase(lastName)
    IN CASE format = "dot" -> first \o <<46>> \o last
         [] format = "underscore" -> first \o <<95>> \o last
         [] format = "plain" -> first \o last
         [] format = "withDigits" -> first \o last \o digits
         [] OTHER -> first \o last

\* mutant: any length accepted
isValidLength_Always(address) == TRUE

isValidLength(address) ==
    Len(address) >= MIN_ADDRESS_LENGTH /\ Len(address) <= MAX_ADDRESS_LENGTH

\* n => n.length <= 6
IsShort(n) == Len(n) <= 6
shortFirstNames == SelectSeq(firstNames, IsShort)
shortLastNames == SelectSeq(lastNames, IsShort)

John == <<106, 111, 104, 110>>       \* 'john'
Doe == <<100, 111, 101>>             \* 'doe'

\* array[index] || dflt: an index past the end reads undefined
IndexOr(array, index, dflt) ==
    IF index + 1 \in DOMAIN array THEN array[index + 1] ELSE dflt

\* the block after the loop, for the two indices it draws
Fallback(firstIndex, lastIndex) ==
    formatNameAddress(IndexOr(shortFirstNames, firstIndex, John),
                      IndexOr(shortLastNames, lastIndex, Doe), "plain", <<>>)

\* the values Math.floor(Math.random() * array.length) takes; 0 when the array
\* is empty
IndexDraws(array) == IF Len(array) = 0 THEN {0} ELSE MathFloorRandom(Len(array))

InitName ==
    /\ store = {}
    /\ emails = {}
    /\ now = 0
    /\ nextId = 0
    /\ cron = IdleCron
    /\ pc = [p \in Procs |-> IF p = "p1" THEN "attempt" ELSE "idle"]
    /\ req = [p \in Procs |->
                IF p = "p1" THEN [IdleReq EXCEPT !.op = "generateNameAddress",
                                                 !.local = [attempt |-> 0]]
                ELSE IdleReq]
    /\ resp = [p \in Procs |-> NoResp]

\* the head of the loop: the names and the format of this attempt are drawn;
\* after the last attempt the fallback address is returned
GenerateNameAddressAttempt(p) ==
    /\ pc[p] = "attempt" /\ req[p].op = "generateNameAddress"
    /\ IF req[p].local.attempt < maxAttempts
       THEN \E firstIndex \in IndexDraws(firstNames),
               lastIndex \in IndexDraws(lastNames),
               formatIndex \in IndexDraws(formats) :
               Goto(p, "format",
                    [req[p] EXCEPT !.local =
                        [attempt |-> req[p].local.attempt,
                         firstName |-> firstNames[firstIndex + 1],
                         lastName |-> lastNames[lastIndex + 1],
                         format |-> formats[formatIndex + 1]]])
       ELSE \E firstIndex \in IndexDraws(shortFirstNames),
               lastIndex \in IndexDraws(shortLastNames) :
               Reply(p, Response(req[p].op, Fallback(firstIndex, lastIndex),
                                 0, "", {}))
    /\ UNCHANGED <<store, emails, now, nextId, cron>>

\* the body of the loop from formatNameAddress on: the address is returned,
\* or returned in another format, or the next attempt begins
GenerateNameAddressFormat(p) ==
    /\ pc[p] = "format" /\ req[p].op = "generateNameAddress"
    /\ LET l == req[p].local
           return(a) == Reply(p, Response(req[p].op, a, 0, "", {}))
           next == Goto(p, "attempt",
                        [req[p] EXCEPT !.local = [attempt |-> l.attempt + 1]])
       IN \E digits \in DigitsDrawn(l.format) :
           LET address == formatNameAddress(l.firstName, l.lastName, l.format, digits)
               plainAddress ==
                   formatNameAddress(l.firstName, l.lastName, "plain", <<>>)
           IN IF isValidLength(address) THEN return(address)
              ELSE IF Len(address) < MIN_ADDRESS_LENGTH
              THEN \E moreDigits \in RandomDigits :
                      LET addressWithDigits ==
                              formatNameAddress(l.firstName, l.lastName,
                                                "withDigits", moreDigits)
                      IN IF isValidLength(addressWithDigits)
                         THEN return(addressWithDigits)
                         ELSE next
              ELSE IF Len(address) > MAX_ADDRESS_LENGTH
                      /\ isValidLength(plainAddress)
              THEN return(plainAddress)
              ELSE next
    /\ UNCHANGED <<store, emails, now, nextId, cron>>

NextName ==
    \/ GenerateNameAddressAttempt("p1")
    \/ GenerateNameAddressFormat("p1")

SpecName == InitName /\ [][NextName]_vars

\* ---- validateCustomAddress applied to arbitrary strings ----

\* code units an input is made of: a Z 5 . _ - ! space newline @
InputChars == {97, 90, 53, 46, 95, 45, 33, 32, 10, 64}

ShortInputs == UNION {[1..n -> InputChars] : n \in 0..MaxInputLen}

\* lengths around the upper limit
LongLengths == {29, 30, 31, 32}

\* s followed by the letter a up to length n
Pad(s, n) == s \o [i \in 1..(n - Len(s)) |-> 97]

ValidatorInputs == ShortInputs \cup {Pad(s, n) : s \in ShortInputs, n \in LongLengths}

InitValidate ==
    /\ store = {}
    /\ emails = {}
    /\ now = 0
    /\ nextId = 0
    /\ cron = IdleCron
    /\ pc = [p \in Procs |-> IF p = "p1" THEN "validate" ELSE "idle"]
    /\ \E address \in ValidatorInputs :
        req = [p \in Procs |->
                 IF p = "p1" THEN [IdleReq EXCEPT !.op = "validate",
                                                  !.address = address]
                 ELSE IdleReq]
    /\ resp = [p \in Procs |-> NoResp]

\* validateCustomAddress(address) is called and returns; the error is kept in
\* the message of the answer, empty when the result is { valid: true }
ValidateCustomAddress(p) ==
    /\ pc[p] = "validate"
    /\ LET result == validateCustomAddress(req[p].address)
       IN Reply(p, Response("validate", req[p].address,
                            IF result.valid THEN 200 ELSE 400, result.error, {}))
    /\ UNCHANGED <<store, emails, now, nextId, cron>>

NextValidate == ValidateCustomAddress("p1")

SpecValidate == InitValidate /\ [][NextValidate]_vars

\* ---- POST /api/mailboxes with addresses that differ in letter case ----

AmyLeeCaps == <<65, 77, 89, 76, 69, 69>>           \* "AMYLEE"

\* body.address: two spellings of one address, neither in lowercase
CasedAddresses == {AmyLeeUpper, AmyLeeCaps}

NextCase ==
    \/ MayCreate /\ ReceivePost("p1", {"custom", "random"}, CasedAddresses)
    \/ ReceiveGet("p1", ParamAddresses)
    \/ ReceivePatch("p1", ParamAddresses)
    \/ ReceiveDelete("p1", ParamAddresses)
    \/ Handle("p1")
    \/ Background(MaxCaseTicks)

SpecCase == Init /\ [][NextCase]_vars

\* ---- the page that creates mailboxes (MailboxContext, api.ts) ----

\* The state of the page is kept in slot Page: req[Page].addressType is
\* addressType, req[Page].isPermanent is isPermanentOption, and resp[Page] is
\* the message the page shows.  Its requests are served in slot "p1".
Page == "p2"

WhiteSpace == {32, 9, 10, 13}

RECURSIVE TrimStart(_)
TrimStart(s) ==
    IF s # <<>> /\ Head(s) \in WhiteSpace THEN TrimStart(Tail(s)) ELSE s

RECURSIVE TrimEnd(_)
TrimEnd(s) ==
    IF s # <<>> /\ s[Len(s)] \in WhiteSpace
    THEN TrimEnd(SubSeq(s, 1, Len(s) - 1)) ELSE s

\* String.prototype.trim
trim(s) == TrimEnd(TrimStart(s))

AmyLeePadded == <<32>> \o AmyLee \o <<32>>          \* " amylee "
Blank == <<32, 32>>                                  \* "  "

\* what the custom-address input may hold when the form is submitted
CustomInputs == {NoAddress, Blank, AmyLee, AmyLeePadded}

\* api.ts createMailboxWithType(addressType, customAddress, expiresInHours):
\* the body it posts.  It has three parameters; a fourth argument is not read.
createMailboxWithType(addressType, customAddress, hours) ==
    LET requestBody == [addressType |-> addressType, expiresInHours |-> hours]
    IN IF addressType = "custom" /\ customAddress # NoAddress
       THEN [addressType |-> addressType, expiresInHours |-> hours,
             address |-> trim(customAddress)]
       ELSE requestBody

\* POST /api/mailboxes reads the body: address may be absent, isPermanent is
\* false unless the body holds a boolean
ReceiveBody(p, body) ==
    Receive(p, "create",
            IF "address" \in DOMAIN body THEN body.address ELSE NoAddress,
            body.addressType,
            IF "isPermanent" \in DOMAIN body THEN body.isPermanent ELSE FALSE)

InitUi ==
    /\ store = {}
    /\ emails = {}
    /\ now = 0
    /\ nextId = 0
    /\ cron = IdleCron
    /\ pc = [p \in Procs |-> "idle"]
    /\ req = [p \in Procs |->
                IF p = Page THEN [IdleReq EXCEPT !.op = "ui", !.addressType = "random",
                                                 !.isPermanent = FALSE]
                ELSE IdleReq]
    /\ resp = [p \in Procs |-> NoResp]

\* setAddressType(type): switching to random resets the permanent option
SetAddressType ==
    /\ \E type \in AddressTypes :
        req' = [req EXCEPT ![Page] =
                   [@ EXCEPT !.addressType = type,
                             !.isPermanent = IF type = "random" THEN FALSE ELSE @]]
    /\ UNCHANGED <<store, emails, now, nextId, cron, pc, resp>>

SetIsPermanentOption ==
    /\ \E value \in BOOLEAN :
        req' = [req EXCEPT ![Page] = [@ EXCEPT !.isPermanent = value]]
    /\ UNCHANGED <<store, emails, now, nextId, cron, pc, resp>>

\* createMailboxWithAddressType(customAddress), up to the request it sends
CreateMailboxWithAddressType ==
    \E customAddress \in CustomInputs :
        LET addressType == req[Page].addressType
            isPermanentOption == req[Page].isPermanent
            isEligible == addressType = "name" \/ addressType = "custom"
            isPermanent == isEligible /\ isPermanentOption
        IN IF addressType = "custom"
           THEN IF customAddress = NoAddress \/ trim(customAddress) = <<>>
                THEN /\ resp' = [resp EXCEPT ![Page] =
                                    Response("ui", customAddress, 0,
                                             "mailbox.customAddressRequired", {})]
                     /\ UNCHANGED <<store, emails, now, nextId, cron, pc, req>>
                ELSE \* createMailboxWithType('custom', customAddress, 24, isPermanent)
                     ReceiveBody("p1", createMailboxWithType("custom", customAddress, 24))
           ELSE \* createMailboxWithType(addressType, undefined, 24, isPermanent)
                ReceiveBody("p1", createMailboxWithType(addressType, NoAddress, 24))

NextUi ==
    \/ SetAddressType
    \/ SetIsPermanentOption
    \/ MayCreate /\ CreateMailboxWithAddressType
    \/ PostMailboxes("p1")
    \/ GetMailboxSelect("p1")
    \/ GetMailboxTouch("p1")
    \/ CreateMailbox("p1")
    \/ Background(MaxUiTicks)

SpecUi == InitUi /\ [][NextUi]_vars

\* ---- rows older than column address_type ----

\* mutant of the column default
AddressTypeDefault_Name == "name"

\* address_type TEXT NOT NULL DEFAULT 'random'
AddressTypeDefault == "random"

LegacyIds == {0}

\* rows written before the column existed: no class is stored with them
LegacyRows ==
    {[id |-> id, address |-> address, createdAt |-> createdAt,
      expiresAt |-> createdAt + expiresInHours * 60 * 60,
      ipAddress |-> ipAddress, lastAccessed |-> createdAt] :
        id \in LegacyIds, address \in {AmyLee, Qx7},
        createdAt \in {0 - TickSeconds, 0}, ipAddress \in IpAddresses}

\* adding the column gives every existing row the default
AddAddressTypeColumn(rows) ==
    {[id |-> l.id, address |-> l.address, addressType |-> AddressTypeDefault,
      createdAt |-> l.createdAt, expiresAt |-> l.expiresAt,
      ipAddress |-> l.ipAddress, lastAccessed |-> l.lastAccessed] : l \in rows}

InitLegacy ==
    /\ \E l \in LegacyRows : store = AddAddressTypeColumn({l})
    /\ emails = {}
    /\ now = 0
    /\ nextId = 0
    /\ cron = IdleCron
    /\ pc = [p \in Procs |-> "idle"]
    /\ req = [p \in Procs |-> IdleReq]
    /\ resp = [p \in Procs |-> NoResp]

NextLegacy ==
    \/ MayCreate /\ ReceivePost("p1", {"name"}, {NoAddress})
    \/ ReceiveGet("p1", ParamAddresses)
    \/ ReceivePatch("p1", ParamAddresses)
    \/ ReceiveDelete("p1", ParamAddresses)
    \/ Handle("p1")
    \/ Background(MaxLegacyTicks)

SpecLegacy == InitLegacy /\ [][NextLegacy]_vars

\* Mailboxes created without permanence and never converted, under a clock
\* that keeps advancing and a sweep that keeps being scheduled.  A row is
\* inserted only while the clock can still reach the end of its window.
NextLive ==
    \/ MayCreate /\ ReceivePostTemporary("p1", {"name", "random"}, {NoAddress})
    \/ ReceiveGet("p1", ParamAddresses)
    \/ PostMailboxes("p1")
    \/ GetMailboxSelect("p1")
    \/ GetMailboxTouch("p1")
    \/ /\ now + expiresInHours * 60 * 60 <= MaxLiveTicks * TickSeconds
       /\ CreateMailbox("p1")
    \/ Background(MaxLiveTicks)

SpecLive ==
    /\ Init /\ [][NextLive]_vars
    /\ WF_vars(Tick(MaxLiveTicks))
    /\ WF_vars(CleanupExpiredMailboxes)
    /\ WF_vars(CleanupOrphanedAttachments)

----------------------------------------------------------------------------
(* Properties *)

\* slot p runs the statement at label in this step
Runs(p, label) == pc[p] = label /\ pc'[p] # label

\* the cleanup's DELETE runs in this step
Sweeps == cron.pc = "idle" /\ cron'.pc = "orphans"

Permanent(r) == r.expiresAt = PERMANENT_MAILBOX_SENTINEL

\* the ids of the permanent rows with this address
PermanentIds(rows, address) ==
    {r.id : r \in {x \in rows : x.address = address /\ Permanent(x)}}

\* C1: the mailbox sweep never removes a row whose expiresAt is the sentinel,
\* whatever the current time (before, at or after the sentinel instant) and
\* however often it runs.
C1_SweepKeepsPermanent ==
    [][Sweeps => \A r \in store : Permanent(r) => r \in store']_vars

\* a sweep has run at or after the sentinel instant and a permanent row that
\* was last touched before it is still in the store
C1_Witness ==
    /\ cron.pc = "orphans"
    /\ cron.now0 >= PERMANENT_MAILBOX_SENTINEL
    /\ pc["p1"] = "idle"
    /\ \E r \in store : Permanent(r) /\ r.lastAccessed < cron.now0

\* C2: whatever is interleaved with a Delete request, its DELETE never removes
\* a row that is permanent at the moment it is removed.
C2_DeleteNeverRemovesPermanent ==
    [][\A p \in Procs :
        Runs(p, "delete") => \A r \in store \ store' : ~Permanent(r)]_vars

\* C3: a Delete request on a permanent mailbox, with no other request
\* interleaved, is answered 403 "Cannot delete permanent mailbox" and the row
\* stays in the store with expiresAt the sentinel.
C3_DeletePermanentRejected ==
    [][\A p \in Procs :
        LET a == req[p].address
            held == PermanentIds(store, a) # {}
        IN (req[p].op = "delete" /\ held) =>
            /\ PermanentIds(store, a) \subseteq PermanentIds(store', a)
            /\ Runs(p, "select") => pc'[p] = "touch"
            /\ Runs(p, "touch") =>
                /\ resp'[p].status = 403
                /\ resp'[p].message = "Cannot delete permanent mailbox"]_vars

\* a Delete has been refused and the permanent row is there
C3_Witness ==
    /\ resp["p1"].op = "delete"
    /\ resp["p1"].status = 403
    /\ PermanentIds(store, resp["p1"].address) # {}

\* C4: no row of class random ever has expiresAt equal to the sentinel.
C4_RandomNeverPermanent ==
    \A r \in store : r.addressType = "random" => ~Permanent(r)

\* C5: POST with class random and isPermanent true is answered 400 "Random
\* mailboxes cannot be permanent" and the store is left as it was.
C5_PermanentRandomRejected ==
    [][\A p \in Procs :
        (Runs(p, "start") /\ req[p].op = "create"
            /\ req[p].addressType = "random" /\ req[p].isPermanent) =>
            /\ resp'[p].status = 400
            /\ resp'[p].message = "Random mailboxes cannot be permanent"
            /\ pc'[p] = "idle"
            /\ store' = store]_vars

C5_Witness ==
    /\ resp["p1"].op = "create"
    /\ resp["p1"].message = "Random mailboxes cannot be permanent"
    /\ store # {}

\* C6: a createMailbox that succeeds with isPermanent true and class name or
\* custom stores expiresAt = sentinel and returns isPermanent true, whatever
\* expiresInHours it was given.
C6_PermanentCreateStoresSentinel ==
    [][\A p \in Procs :
        (Runs(p, "insert") /\ req[p].isPermanent
            /\ req[p].addressType \in {"name", "custom"}
            /\ resp'[p].status = 200) =>
            /\ \E r \in store' \ store :
                /\ r.address = req[p].address
                /\ r.expiresAt = PERMANENT_MAILBOX_SENTINEL
                /\ store' = store \cup {r}
            /\ \E m \in resp'[p].mailbox :
                /\ m.isPermanent
                /\ m.expiresAt = PERMANENT_MAILBOX_SENTINEL]_vars

\* a direct createMailbox has returned a permanent mailbox
C6_Witness ==
    /\ resp["p1"].op = "createMailbox"
    /\ resp["p1"].status = 200
    /\ \E m \in resp["p1"].mailbox :
        /\ m.isPermanent
        /\ \E r \in store : r.id = m.id /\ Permanent(r)

\* C7: Get returns the mailbox exactly when a row with the address exists
\* whose expiresAt is later than the current time or is the sentinel; so a
\* permanent mailbox is returned at any time and an elapsed row is not found
\* although it is still in the store.
C7_GetReturnsLiveOrPermanent ==
    [][\A p \in Procs :
        LET a == req[p].address
            hits == {r \in store : /\ r.address = a
                                   /\ \/ r.expiresAt > now
                                      \/ r.expiresAt = PERMANENT_MAILBOX_SENTINEL}
        IN req[p].op = "get" =>
            /\ Runs(p, "select") =>
                IF hits = {}
                THEN /\ pc'[p] = "idle"
                     /\ resp'[p].status = 404
                     /\ resp'[p].mailbox = {}
                ELSE /\ pc'[p] = "touch"
                     /\ req'[p].mailbox # {}
                     /\ req'[p].mailbox \subseteq hits
            /\ Runs(p, "touch") =>
                /\ pc'[p] = "idle"
                /\ resp'[p].status = 200
                /\ \E m \in resp'[p].mailbox : \A r \in req[p].mailbox :
                    /\ m.address = a
                    /\ m.id = r.id
                    /\ m.expiresAt = r.expiresAt
                    /\ m.isPermanent = Permanent(r)]_vars

\* Get has answered 404 for an address whose elapsed row is in the store
C7_Witness ==
    /\ resp["p1"].op = "get"
    /\ resp["p1"].status = 404
    /\ \E r \in store :
        r.address = resp["p1"].address /\ r.expiresAt <= now /\ ~Permanent(r)

\* C8: a sweep at time now removes exactly the rows with expiresAt <= now that
\* are not permanent, and leaves every other row as it was.
C8_SweepRemovesExactlyExpired ==
    [][Sweeps =>
        /\ store' = {r \in store : ~(r.expiresAt <= now /\ ~Permanent(r))}
        /\ cron'.changes = Cardinality(store) - Cardinality(store')]_vars

\* a sweep has removed a row and kept one that had not elapsed
C8_Witness ==
    /\ cron.pc = "orphans"
    /\ cron.changes >= 1
    /\ pc["p1"] = "idle"
    /\ \E r \in store :
        ~Permanent(r) /\ r.expiresAt > cron.now0 /\ r.lastAccessed < cron.now0

\* C9: converting a live, non-permanent mailbox of class name or custom sets
\* its expiresAt to the sentinel and answers 200 with isPermanent true;
\* from then on Get on the address answers 200 with isPermanent true and
\* Delete answers 403 "Cannot delete permanent mailbox".
C9_ConvertMakesPermanent ==
    [][\A p \in Procs :
        LET a == req[p].address
            live == {r \in store : /\ r.address = a
                                   /\ r.expiresAt > now /\ ~Permanent(r)
                                   /\ r.addressType \in {"name", "custom"}}
            held == PermanentIds(store, a) # {}
            kept == PermanentIds(store, a) \subseteq PermanentIds(store', a)
        IN
        /\ (req[p].op = "convert" /\ live # {}) =>
            /\ Runs(p, "select") => pc'[p] = "touch"
            /\ Runs(p, "touch") => pc'[p] = "update"
            /\ Runs(p, "update") =>
                /\ pc'[p] = "select2"
                /\ {r.id : r \in live} \subseteq PermanentIds(store', a)
        /\ (req[p].op = "convert" /\ pc[p] \in {"select2", "touch2"}) =>
            /\ held /\ kept
            /\ Runs(p, "select2") => pc'[p] = "touch2"
            /\ Runs(p, "touch2") =>
                /\ resp'[p].status = 200
                /\ \E m \in resp'[p].mailbox :
                    m.isPermanent /\ m.expiresAt = PERMANENT_MAILBOX_SENTINEL
        /\ (req[p].op = "get" /\ held) =>
            /\ kept
            /\ Runs(p, "select") => pc'[p] = "touch"
            /\ Runs(p, "touch") =>
                /\ resp'[p].status = 200
                /\ \E m \in resp'[p].mailbox : m.isPermanent
        /\ (req[p].op = "delete" /\ held) =>
            /\ kept
            /\ Runs(p, "select") => pc'[p] = "touch"
            /\ Runs(p, "touch") =>
                /\ resp'[p].status = 403
                /\ resp'[p].message = "Cannot delete permanent mailbox"]_vars

\* a conversion has run its UPDATE and answered with the converted mailbox
C9_Witness ==
    /\ resp["p1"].op = "convert"
    /\ resp["p1"].status = 200
    /\ resp["p1"].message = "Mailbox converted to permanent"
    /\ \E m \in resp["p1"].mailbox :
        /\ m.isPermanent
        /\ \E r \in store : r.id = m.id /\ Permanent(r)

\* what a conversion request on an already permanent, eligible row may do to
\* the store: stored(p) relates the store before and after each of its steps
SecondConversion(p, stored(_)) ==
    LET a == req[p].address
        held == {r \in store : /\ r.address = a /\ Permanent(r)
                               /\ r.addressType \in {"name", "custom"}}
    IN (req[p].op = "convert" /\ pc[p] \in {"select", "touch"} /\ held # {}) =>
        /\ PermanentIds(store, a) \subseteq PermanentIds(store', a)
        /\ Runs(p, "select") => pc'[p] = "touch" /\ store' = store
        /\ Runs(p, "touch") =>
            /\ pc'[p] = "idle"
            /\ resp'[p].status = 200
            /\ resp'[p].message = "Mailbox is already permanent"
            /\ \E m \in resp'[p].mailbox :
                m.isPermanent /\ m.expiresAt = PERMANENT_MAILBOX_SENTINEL
            /\ stored(held)

\* the first conversion of a request pair: once its UPDATE has run it answers 200
FirstConversion(p) ==
    (req[p].op = "convert" /\ pc[p] \in {"select2", "touch2"} /\ pc'[p] = "idle") =>
        resp'[p].status = 200

Live(rows, address, t) ==
    {r \in rows : r.address = address /\ (r.expiresAt > t \/ Permanent(r))}

\* the ids of the rows with this address
IdsOf(rows, address) == {r.id : r \in {x \in rows : x.address = address}}

\* C11: when two conversion requests for one eligible, non-permanent mailbox
\* have both passed their existence check before either UPDATE runs, both
\* answer 200 and the row's expiresAt ends as the sentinel.
C11_RacingConvertsBothSucceed ==
    [][\A p \in Procs : \A q \in Procs \ {p} :
        LET a == req[p].address
            rows == {r \in store : r.address = a
                                   /\ r.addressType \in {"name", "custom"}}
        IN (/\ req[p].op = "convert" /\ req[q].op = "convert"
            /\ req[q].address = a
            /\ pc[p] \in {"update", "select2", "touch2"}
            /\ pc[q] \in {"update", "select2", "touch2"}
            /\ rows # {}) =>
            /\ Runs(p, "update") =>
                /\ pc'[p] = "select2"
                /\ {r.id : r \in rows} \subseteq PermanentIds(store', a)
            /\ pc'[p] = "idle" => resp'[p].status = 200]_vars

\* C12: no two rows of the store share an address, and a Create request whose
\* INSERT finds the address held by a live or permanent row (inserted by a
\* racing Create after this request's lookup) is answered 400 "Mailbox
\* address already exists" while the other Create is answered 200.
C12_RacingCreatesOneTaken ==
    [][/\ \A r1 \in store' : \A r2 \in store' :
            r1.address = r2.address => r1 = r2
       /\ \A p \in Procs :
            (req[p].op = "create" /\ Runs(p, "insert")) =>
                IF Live(store, req[p].address, now) # {}
                THEN /\ resp'[p].status = 400
                     /\ resp'[p].message = "Mailbox address already exists"
                     /\ store' = store
                ELSE IdsOf(store, req[p].address) = {} =>
                     /\ resp'[p].status = 200
                     /\ Cardinality(store' \ store) = 1]_vars

\* C13: a Create of class custom whose address is held by a live or permanent
\* mailbox is answered 400 "Mailbox address already exists" at once, without
\* another attempt, and the rows with that address stay the same single row.
C13_CustomCollisionSurfaced ==
    [][\A p \in Procs :
        LET a == req[p].address IN
        (req[p].op = "create" /\ req[p].addressType = "custom") =>
            /\ (Runs(p, "select") /\ Live(store, a, now) # {}) =>
                /\ pc'[p] = "touch"
                /\ store' = store
            /\ Runs(p, "touch") =>
                /\ pc'[p] = "idle"
                /\ resp'[p].status = 400
                /\ resp'[p].message = "Mailbox address already exists"
                /\ IdsOf(store', a) = IdsOf(store, a)
                /\ Cardinality(IdsOf(store', a)) <= 1]_vars

\* a custom Create has been refused and the row that holds the address is there
C13_Witness ==
    /\ resp["p1"].op = "create"
    /\ resp["p1"].message = "Mailbox address already exists"
    /\ \E r \in store :
        /\ r.address = resp["p1"].address
        /\ r.addressType = "custom"
        /\ IdsOf(store, r.address) = {r.id}

\* C14: a Create of a self-generated class (name, or random with no address
\* in the body) whose candidate is taken does not answer "Mailbox address
\* already exists": it generates another candidate and tries again.
C14_TakenCandidateRegenerated ==
    [][\A p \in Procs :
        (/\ req[p].op = "create" /\ Runs(p, "touch")
         /\ \/ req[p].addressType = "name"
            \/ req[p].address \in RandomAddresses) =>
            ~(/\ pc'[p] = "idle"
              /\ resp'[p].message = "Mailbox address already exists")]_vars

\* C15: over every step, a row keeps its expiresAt or has it raised to the
\* sentinel; it is never lowered, and a sentinel stays a sentinel.
C15_ExpiresAtNeverDecreases ==
    [][\A r \in store : \A r2 \in store' :
        r2.id = r.id =>
            /\ r2.expiresAt >= r.expiresAt
            /\ r2.expiresAt \in {r.expiresAt, PERMANENT_MAILBOX_SENTINEL}
            /\ Permanent(r) => Permanent(r2)]_vars

\* a purge of table emails runs its DELETE in this step
Purges == cron.pc = "idle" /\ cron'.pc \in {"mailOrphans", "readOrphans"}

\* the mailbox that owns the email is permanent
OwnerPermanent(e) == \E r \in store : r.id = e.mailboxId /\ Permanent(r)

\* C16: neither the age-based nor the read-based purge deletes an email whose
\* mailbox has expiresAt equal to the sentinel when the purge runs, however
\* old the email is and whether or not it is read.
C16_PurgesSparePermanentMail ==
    [][Purges => \A e \in emails : OwnerPermanent(e) => e \in emails']_vars

\* the read-based purge has run and an email of a permanent mailbox that is
\* read and more than a day old is still there
C16_Witness ==
    /\ cron.pc = "readOrphans"
    /\ \E e \in emails :
        /\ e.isRead
        /\ e.receivedAt <= cron.now0 - 24 * 60 * 60
        /\ OwnerPermanent(e)

\* the overlapping run's DELETE runs in this step
SweepsIn(p) == pc[p] = "idle" /\ pc'[p] = "orphans" /\ req'[p].op = "cleanup"

\* what a single sweep at time t leaves of rows
SweptOnce(rows, t) == {r \in rows : ~(r.expiresAt <= t /\ ~Permanent(r))}

\* C17: two sweeps at one time, run one after the other or with their
\* statements interleaved, leave the store as a single sweep at that time
\* does: each DELETE leaves what a single sweep leaves, a sweep of that result
\* at the same time removes nothing, and the sweep that runs its DELETE while
\* the other is between its DELETE and its return removes nothing.
C17_SweepTwiceAsOnce ==
    [][/\ (Sweeps \/ SweepsIn("p2")) =>
            /\ store' = SweptOnce(store, now)
            /\ SweptOnce(store', now) = store'
       /\ (Sweeps /\ pc["p2"] = "orphans" /\ req["p2"].now0 = now) =>
            store' = store
       /\ (SweepsIn("p2") /\ cron.pc = "orphans" /\ cron.now0 = now) =>
            store' = store
       /\ (cron.pc = "orphans" /\ cron'.pc = "idle") => store' = store
       /\ (pc["p2"] = "orphans" /\ pc'["p2"] = "idle") => store' = store]_vars

\* both sweeps have run their DELETE at the same time, the scheduled one
\* having removed a row
C17_Witness ==
    /\ cron.pc = "orphans"
    /\ pc["p2"] = "orphans"
    /\ cron.now0 = req["p2"].now0
    /\ cron.changes >= 1

\* C18: whatever steps of a Create the sweep runs between, it removes only
\* rows whose expiresAt is not later than the current time, and none before
\* the validity window that started at its creation has elapsed.
C18_SweepSparesUnexpired ==
    [][Sweeps => \A r \in store \ store' :
        /\ r.expiresAt <= now
        /\ r.createdAt + expiresInHours * 60 * 60 <= now]_vars

\* the sweep has removed a row between the lookup and the INSERT of a Create
C18_Witness ==
    /\ cron.pc = "orphans"
    /\ cron.changes >= 1
    /\ req["p1"].op = "create"
    /\ pc["p1"] = "insert"

\* what a conversion request on a live mailbox of class random does:
\* stored(found) relates the store before and after its lookup's UPDATE
RandomConversion(p, stored(_)) ==
    LET a == req[p].address IN
    req[p].op = "convert" =>
        /\ (/\ Runs(p, "select")
            /\ \E r \in Live(store, a, now) : r.addressType = "random") =>
            /\ pc'[p] = "touch"
            /\ store' = store
        /\ (/\ Runs(p, "touch")
            /\ \E m \in req[p].mailbox : m.addressType = "random") =>
            /\ pc'[p] = "idle"
            /\ resp'[p].status = 403
            /\ resp'[p].message =
                   "Random mailboxes cannot be converted to permanent"
            /\ stored(req[p].mailbox)

C20_AbsentOrExpiredNotFound ==
    [][\A p \in Procs :
        (/\ req[p].op \in {"convert", "delete"}
         /\ Runs(p, "select")
         /\ Live(store, req[p].address, now) = {}) =>
            /\ pc'[p] = "idle"
            /\ resp'[p].status = 404
            /\ resp'[p].message = "Mailbox not found"
            /\ store' = store]_vars

\* a conversion has been answered 404 for an address whose elapsed row is in
\* the store
C20_Witness ==
    /\ resp["p1"].op = "convert"
    /\ resp["p1"].status = 404
    /\ \E r \in store :
        r.address = resp["p1"].address /\ r.expiresAt <= now /\ ~Permanent(r)

\* C21: a conversion whose row has been removed, by a Delete or by the sweep,
\* between its existence check and its UPDATE is answered 404.
C21_RemovedDuringConvertNotFound ==
    [][\A p \in Procs :
        (/\ req[p].op = "convert"
         /\ Runs(p, "update")
         /\ IdsOf(store, req[p].address) = {}) =>
            resp'[p].status = 404]_vars

\* C22: a Delete on a live, non-permanent mailbox runs to its DELETE, which
\* removes the row and answers 200; a Get on an address that has no row is
\* answered 404.
C22_DeleteRemovesRow ==
    [][\A p \in Procs :
        LET a == req[p].address IN
        /\ req[p].op = "delete" =>
            /\ (/\ Runs(p, "select")
                /\ \E r \in Live(store, a, now) : ~Permanent(r)) =>
                pc'[p] = "touch"
            /\ (/\ Runs(p, "touch")
                /\ \E m \in req[p].mailbox : ~Permanent(m)) =>
                pc'[p] = "delete"
            /\ Runs(p, "delete") =>
                /\ pc'[p] = "idle"
                /\ resp'[p].status = 200
                /\ IdsOf(store', a) = {}
                /\ store' = {r \in store : r.address # a}
        /\ (req[p].op = "get" /\ Runs(p, "select") /\ IdsOf(store, a) = {}) =>
            /\ pc'[p] = "idle"
            /\ resp'[p].status = 404
            /\ store' = store]_vars

\* a Delete has been answered 200, the address has no row and another
\* mailbox is still in the store
C22_Witness ==
    /\ resp["p1"].op = "delete"
    /\ resp["p1"].status = 200
    /\ IdsOf(store, resp["p1"].address) = {}
    /\ store # {}

\* C28: a Create whose INSERT finds the address held by a row that has
\* elapsed and is not yet swept is answered 400 "Mailbox address already
\* exists" and leaves the store as it was.
C28_ExpiredAddressTaken ==
    [][\A p \in Procs :
        LET a == req[p].address IN
        (/\ req[p].op = "create"
         /\ Runs(p, "insert")
         /\ IdsOf(store, a) # {}
         /\ Live(store, a, now) = {}) =>
            /\ resp'[p].status = 400
            /\ resp'[p].message = "Mailbox address already exists"
            /\ store' = store]_vars

\* C30: a sweep run that fails in its attachment pass leaves table mailboxes
\* as its DELETE left it; the next run brings the store to what a sweep at its
\* own time leaves, as after a run that did not fail; and neither run removes
\* or changes a permanent row.
C30_FailedSweepRetried ==
    [][/\ (cron.pc = "orphans" /\ cron'.pc = "idle") => store' = store
       /\ Sweeps =>
            /\ store' = SweptOnce(store, now)
            /\ \A r \in store : Permanent(r) => r \in store'
            /\ cron'.failed = cron.failed]_vars

\* the run after a failed one has removed a row and kept a permanent one
C30_Witness ==
    /\ cron.pc = "orphans"
    /\ cron.failed
    /\ cron.changes >= 1
    /\ \E r \in store : Permanent(r)

\* C29: under a clock that keeps advancing and a sweep that runs again and
\* again, every mailbox created without permanence and never converted is
\* eventually absent from the store.
C29_TemporaryEventuallyGone ==
    \A id \in 1..MaxCreates :
        (\E r \in store : r.id = id) ~> ~(\E r \in store : r.id = id)

\* C26: a row written before column address_type existed is treated as class
\* random: a conversion request that finds it is answered 403, and the row
\* never becomes permanent.
C26_LegacyRowIneligible ==
    [][/\ \A p \in Procs :
            (/\ req[p].op = "convert"
             /\ Runs(p, "touch")
             /\ \E m \in req[p].mailbox : m.id \in LegacyIds) =>
                /\ pc'[p] = "idle"
                /\ resp'[p].status = 403
                /\ resp'[p].message =
                       "Random mailboxes cannot be converted to permanent"
       /\ \A r \in store' : r.id \in LegacyIds => ~Permanent(r)]_vars

\* a conversion request on a legacy row has been refused and the row is still
\* stored
C26_Witness ==
    /\ resp["p1"].op = "convert"
    /\ resp["p1"].status = 403
    /\ \E r \in store :
        /\ r.id \in LegacyIds
        /\ r.address = resp["p1"].address
        /\ r.address = AmyLee

\* C27: whenever the permanent option is selected in the page and the selected
\* address type is name or custom, the creation request the page sends carries
\* isPermanent: true.
C27_PermanentOptionSent ==
    [][(/\ req[Page].isPermanent
        /\ req[Page].addressType \in {"name", "custom"}
        /\ pc["p1"] = "idle" /\ pc'["p1"] = "start") =>
            req'["p1"].isPermanent]_vars

\* the characters the address rules allow: A-Z a-z 0-9 . _ -
Allowed(c) ==
    \/ c \in 65..90 \/ c \in 97..122 \/ c \in 48..57
    \/ c = 46 \/ c = 95 \/ c = 45

C24_RandomAddressFormat ==
    resp["p1"].op = "generateRandomAddress" =>
        LET a == resp["p1"].address
        IN /\ Len(a) >= 8 /\ Len(a) <= 12
           /\ \A i \in 1..Len(a) : a[i] \in 97..122 \/ a[i] \in 48..57
           /\ a[1] \in 97..122

\* the longest address has been returned, from z to 9
C24_Witness ==
    /\ resp["p1"].op = "generateRandomAddress"
    /\ Len(resp["p1"].address) = 12
    /\ resp["p1"].address[1] = 122
    /\ resp["p1"].address[12] = 57

\* a is first, an optional '.' or '_', last, and at most 3 digits, in lowercase
\* and 6 to 20 characters long
NameFormed(a, first, last) ==
    /\ Len(a) >= 6 /\ Len(a) <= 20
    /\ \A i \in 1..Len(a) : a[i] \notin 65..90
    /\ \E sep \in {<<>>, <<46>>, <<95>>}, k \in 0..3 :
        /\ Len(a) = Len(first) + Len(sep) + Len(last) + k
        /\ SubSeq(a, 1, Len(a) - k) = first \o sep \o last
        /\ \A i \in (Len(a) - k + 1)..Len(a) : a[i] \in 48..57

\* C25: for every outcome of its random choices over the name pools, the name
\* address generator returns within its 50 attempts and the fallback, and what
\* it returns is lowercase, 6 to 20 characters long, and formed as first name,
\* optional '.' or '_', last name and at most 3 digits; so is every address the
\* fallback can return.
C25_NameAddressFormat ==
    /\ [][Runs("p1", "format") /\ req["p1"].op = "generateNameAddress" =>
            \/ /\ pc'["p1"] = "idle"
               /\ NameFormed(resp'["p1"].address, req["p1"].local.firstName,
                             req["p1"].local.lastName)
            \/ /\ pc'["p1"] = "attempt"
               /\ req'["p1"].local.attempt <= maxAttempts]_vars
    /\ [](pc["p1"] = "attempt" /\ req["p1"].op = "generateNameAddress" =>
            \A firstIndex \in IndexDraws(shortFirstNames),
               lastIndex \in IndexDraws(shortLastNames) :
                NameFormed(Fallback(firstIndex, lastIndex),
                           IndexOr(shortFirstNames, firstIndex, John),
                           IndexOr(shortLastNames, lastIndex, Doe)))

\* the two longest names have been returned without a separator, 20 characters
C25_Witness ==
    /\ resp["p1"].op = "generateNameAddress"
    /\ Len(resp["p1"].address) = 20
    /\ \A i \in 1..20 : resp["p1"].address[i] \in 97..122

\* C31: Get on a hit changes only last_accessed of the matched row, setting it
\* to the time of the lookup, and no other field or row; Get on a miss changes
\* nothing in the store.
C31_GetTouchesOnlyLastAccessed ==
    [][\A p \in Procs :
        req[p].op = "get" =>
            /\ Runs(p, "select") => store' = store
            /\ (Runs(p, "select") /\ Live(store, req[p].address, now) = {}) =>
                  /\ pc'[p] = "idle"
                  /\ resp'[p].status = 404
            /\ Runs(p, "touch") =>
                  /\ resp'[p].status = 200
                  /\ store' = {IF r.id \in {m.id : m \in req[p].mailbox}
                               THEN [r EXCEPT !.lastAccessed = req[p].now0]
                               ELSE r : r \in store}]_vars

\* a Get has hit one of two stored mailboxes: its last_accessed is the time of
\* the lookup and the other row is as it was created
C31_Witness ==
    /\ resp["p1"].op = "get"
    /\ resp["p1"].status = 200
    /\ \E r \in store, o \in store :
        /\ r.address = resp["p1"].address
        /\ r.lastAccessed > r.createdAt
        /\ \A m \in resp["p1"].mailbox : m.lastAccessed = r.lastAccessed
        /\ o.address # r.address
        /\ o.lastAccessed = o.createdAt

\* C32: createMailbox called directly with class random and isPermanent true
\* ignores the flag: it stores a non-permanent row whose expiresAt is the
\* current time plus expiresInHours * 3600 and returns it with isPermanent
\* false.
C32_DirectRandomPermanentIgnored ==
    [][\A p \in Procs :
        (/\ Runs(p, "insert")
         /\ req[p].op = "createMailbox"
         /\ req[p].addressType = "random" /\ req[p].isPermanent
         /\ resp'[p].status = 200) =>
            /\ \E r \in store' \ store :
                /\ store' = store \cup {r}
                /\ r.address = req[p].address
                /\ r.expiresAt = now + req[p].expiresInHours * 3600
                /\ ~Permanent(r)
            /\ \A m \in resp'[p].mailbox : ~m.isPermanent
            /\ resp'[p].mailbox # {}]_vars

\* the string has no capital letter
NoCapital(a) == \A i \in 1..Len(a) : a[i] \notin 65..90

\* the string with its capital letters replaced by small ones
Folded(a) == [i \in 1..Len(a) |-> IF a[i] \in 65..90 THEN a[i] + 32 ELSE a[i]]

\* C33: every address persisted by Create is lowercase: a caller-supplied
\* address is lowercased before the uniqueness check and the insert, so no two
\* stored rows have addresses that differ only in letter case, and a Create of
\* another spelling of a held address adds no row.
C33_PersistedAddressLowercase ==
    /\ [](\A r \in store : NoCapital(r.address))
    /\ [](\A r \in store, o \in store :
            Folded(r.address) = Folded(o.address) => r = o)
    /\ [][\A p \in Procs :
            req[p].op = "create" =>
                /\ (Runs(p, "start") /\ pc'[p] = "select"
                    /\ req[p].address # NoAddress) =>
                        req'[p].address = Folded(req[p].address)
                /\ Runs(p, "touch") =>
                        /\ resp'[p].status = 400
                        /\ {r.id : r \in store'} = {r.id : r \in store}
                /\ (Runs(p, "insert") /\ resp'[p].status = 200) =>
                        /\ NoCapital(req[p].address)
                        /\ \A r \in store :
                            Folded(r.address) # Folded(req[p].address)]_vars

\* an address posted with capitals is stored in lowercase, and a Create of a
\* spelling of it has been refused as already existing
C33_Witness ==
    /\ \E r \in store : r.address = AmyLee /\ r.addressType = "custom"
    /\ resp["p1"].op = "create"
    /\ resp["p1"].status = 400
    /\ resp["p1"].message = "Mailbox address already exists"
    /\ resp["p1"].address = AmyLee

\* the times a row is examined at: the current time and the seconds around
\* its expiry
TimesAround(r) == {now, r.expiresAt - 1, r.expiresAt, r.expiresAt + 1}

\* C34: for every stored row and every time, exactly one of the two holds: the
\* lookup of Get selects the row, or the DELETE of a sweep at that time
\* matches it; at the time equal to its expiresAt a non-permanent row is not
\* selected and is matched by the sweep.
C34_GetOrSweepExactlyOne ==
    \A r \in store :
        /\ \A t \in TimesAround(r) :
            (r \in SelectLive(store, r.address, t)) # (r \in CleanupMatches(store, t))
        /\ ~Permanent(r) =>
            /\ r \notin SelectLive(store, r.address, r.expiresAt)
            /\ r \in CleanupMatches(store, r.expiresAt)

\* at the very second a row expires, Get has answered 404 for its address
\* while the row is still stored
C34_Witness ==
    /\ resp["p1"].op = "get"
    /\ resp["p1"].status = 404
    /\ cron.pc = "idle"
    /\ \E r \in store :
        /\ r.address = resp["p1"].address
        /\ r.expiresAt = now
        /\ ~Permanent(r)
        /\ r \in CleanupMatches(store, now)

\* C35: the UPDATE of a conversion never makes permanent a row whose
\* expiresAt has elapsed at the moment it is applied, however the request's
\* existence check, the clock and the UPDATE interleave.
C35_ElapsedRowNeverConverted ==
    [][\A p \in Procs :
        Runs(p, "update") =>
            \A r \in store :
                (r.expiresAt <= now /\ ~Permanent(r)) =>
                    \A n \in store' : n.id = r.id => ~Permanent(n)]_vars

\* C36: a Create that fails because its address is held by a live or permanent
\* mailbox leaves the store exactly as it was: no row is added and no field of
\* the held row, last_accessed included, is changed.
C36_TakenCreateChangesNothing ==
    [][\A p \in Procs :
        req[p].op = "create" =>
            /\ Runs(p, "select") => store' = store
            /\ Runs(p, "touch") =>
                /\ resp'[p].status = 400
                /\ resp'[p].message = "Mailbox address already exists"
                /\ store' = store]_vars

\* C37: for every creation time and validity window, a mailbox created
\* without permanence (the flag false, or a class that is not eligible) is
\* non-permanent right after creation: its stored expiresAt is the current
\* time plus the window and is not the sentinel.
C37_TemporaryExpiryNeverSentinel ==
    [][\A p \in Procs :
        (/\ Runs(p, "insert")
         /\ ~req[p].isPermanent \/ req[p].addressType \notin {"name", "custom"}
         /\ resp'[p].status = 200) =>
            \A r \in store' \ store :
                /\ r.expiresAt = now + req[p].expiresInHours * 3600
                /\ r.expiresAt # PERMANENT_MAILBOX_SENTINEL
                /\ \A m \in resp'[p].mailbox : m.id = r.id => ~m.isPermanent]_vars

====
